---- MODULE Spec2Model ----
(***************************************************************************)
(* Model of ippai.simulate.models.acoustic_models.k_wave_adapter.simulate. *)
(* One invocation walks the statements of simulate in source order; the   *)
(* file system, the process working directory and the settings mapping     *)
(* persist between invocations.                                            *)
(***************************************************************************)
EXTENDS Integers, Sequences, FiniteSets, TLC

\* ------------------------------------------------------------------ bounds
MaxInvocations == 2

\* ------------------------------------------------------- names and strings
\* A file name is a sequence of tokens; a token that starts with a dot is an
\* extension token.  "out.hdf5" is <<"out", ".hdf5">>.
ExtTokens == {".mat", ".json", ".hdf5"}

OutNames == {<<"out", ".hdf5">>, <<"out">>}

Dirs == {"home", "sim"}

\* A path string: absolute (resolved from the root) or relative (resolved
\* from the working directory of the process that opens it).
Path(abs, name) == [abs |-> abs, name |-> name]

OutPaths == {Path(a, n) : a \in BOOLEAN, n \in OutNames}

\* str + ".mat"
PlusMat(p) == [p EXCEPT !.name = Append(@, ".mat")]

\* str + "dt.mat"
PlusDtMat(p) == [p EXCEPT !.name = @ \o <<"dt", ".mat">>]

\* os.path.splitext(p)[0]: cut at the last extension token that is not the
\* first token of the name.
DotPositions(name) == {i \in 2..Len(name) : name[i] \in ExtTokens}

LastDot(name) == CHOOSE i \in DotPositions(name) : \A j \in DotPositions(name) : j <= i

SplitextRoot(p) ==
    IF DotPositions(p.name) = {} THEN p
    ELSE [p EXCEPT !.name = SubSeq(@, 1, LastDot(p.name) - 1)]

PlusJson(p) == [p EXCEPT !.name = Append(@, ".json")]

\* The file a path string names for a process whose working directory is d.
Resolve(p, d) == IF p.abs THEN <<"root", p.name>> ELSE <<d, p.name>>

\* ---------------------------------------------------------------- settings
\* settings is a Python dict: a sequence of <<key, value>> pairs in insertion
\* order, keys unique.
HasKey(s, k) == \E i \in 1..Len(s) : s[i][1] = k

Get(s, k) == s[CHOOSE i \in 1..Len(s) : s[i][1] = k][2]

\* the assigned key moved to the front of the mapping
SetItem_to_front(s, k, v) ==
    << <<k, v>> >> \o SelectSeq(s, LAMBDA e : e[1] # k)

SetItem(s, k, v) ==
    IF HasKey(s, k)
    THEN [i \in 1..Len(s) |-> IF s[i][1] = k THEN <<k, v>> ELSE s[i]]
    ELSE Append(s, <<k, v>>)

Keys(s) == [i \in 1..Len(s) |-> s[i][1]]

OptKey(k, present, v) == IF present THEN << <<k, v>> >> ELSE <<>>

\* A caller-supplied settings file lives either where simulate would put its
\* own settings file or somewhere else.
ExternalJson == Path(TRUE, <<"ext", ".json">>)

JsonKeyValue(out, c) == IF c = "same" THEN PlusJson(SplitextRoot(out)) ELSE ExternalJson

MkSettings(out, ups, jc, olddt) ==
    << <<"IPPAI_OUTPUT_PATH", out>>, <<"WAVELENGTH", 800>> >>
    \o OptKey("PERFORM_UPSAMPLING", ups # "absent", ups = "true")
    \o << <<"ACOUSTIC_MODEL_BINARY_PATH", "matlab">>,
          <<"ACOUSTIC_MODEL_SCRIPT_LOCATION", "scripts">>,
          <<"ACOUSTIC_MODEL_SCRIPT", "simulate">>,
          <<"SIMULATION_PATH", "sim">> >>
    \o OptKey("dt_acoustic_sim", olddt, 0)
    \o OptKey("SETTINGS_JSON_PATH", jc # "absent", JsonKeyValue(out, jc))

\* The settings the caller passes: for the usual output name, absolute and
\* relative, every kind of settings-file key; for the absolute one every
\* value of the upsampling flag and a timestep left by an earlier run; and
\* an output name without extension.
DefaultName == <<"out", ".hdf5">>

DefaultOut == Path(TRUE, DefaultName)

SettingsInputs ==
    {MkSettings(Path(a, DefaultName), "absent", jc, FALSE) :
        a \in BOOLEAN, jc \in {"absent", "same", "other"}}
    \cup {MkSettings(DefaultOut, ups, "absent", FALSE) : ups \in {"true", "false"}}
    \cup {MkSettings(DefaultOut, "absent", "absent", TRUE)}
    \cup {MkSettings(Path(TRUE, n), "absent", "absent", FALSE) : n \in OutNames}

\* ------------------------------------------------------------------- store
\* load_hdf5(file, key) hands back the dataset stored under key, or raises
\* when there is none.  A dataset of acoustic properties is described by the
\* state of each of its fields.
RequiredFields == <<"sos", "density", "alpha_coeff", "sensor_mask">>

OptionalField == "directivity_angle"

FieldNames == {RequiredFields[i] : i \in 1..Len(RequiredFields)} \cup {OptionalField}

FieldStates == {"ok", "malformed", "absent"}

Datasets ==
    {d \in [FieldNames -> FieldStates] :
        Cardinality({f \in FieldNames : d[f] # "ok"}) <= 1}

NoDataset == [f \in FieldNames |-> "absent"]

load_hdf5(found, key, content) ==
    IF found THEN [ok |-> TRUE, key |-> key, data |-> content]
    ELSE [ok |-> FALSE, key |-> key, data |-> NoDataset]

\* SaveFilePaths.SIMULATION_PROPERTIES.format(which, wavelength)
PropertiesKey(which, wavelength) == <<"simulation_properties", which, wavelength>>

\* the absent-flag branch asking for the upsampled dataset
SelectedDataset_absent_upsampled(s) ==
    IF HasKey(s, "PERFORM_UPSAMPLING")
    THEN IF Get(s, "PERFORM_UPSAMPLING")
         THEN PropertiesKey("upsampled", Get(s, "WAVELENGTH"))
         ELSE PropertiesKey("original", Get(s, "WAVELENGTH"))
    ELSE PropertiesKey("upsampled", Get(s, "WAVELENGTH"))

\* lines 15-24: which dataset simulate asks the store for
SelectedDataset(s) ==
    IF HasKey(s, "PERFORM_UPSAMPLING")
    THEN IF Get(s, "PERFORM_UPSAMPLING")
         THEN PropertiesKey("upsampled", Get(s, "WAVELENGTH"))
         ELSE PropertiesKey("original", Get(s, "WAVELENGTH"))
    ELSE PropertiesKey("original", Get(s, "WAVELENGTH"))

\* np.rot90(tmp_ac_data[field], 3): what the expression raises, if anything
Rot90Error(d, field) ==
    CASE d[field] = "absent" -> "KeyError"
      [] d[field] = "malformed" -> "ValueError"
      [] OTHER -> "none"

\* lines 26-29: the first required field whose expression raises
FirstRequiredError(d) ==
    LET bad == {i \in 1..Len(RequiredFields) : Rot90Error(d, RequiredFields[i]) # "none"}
    IN IF bad = {} THEN "none"
       ELSE Rot90Error(d, RequiredFields[CHOOSE i \in bad : \A j \in bad : i <= j])

\* only the KeyError clause
CaughtErrors_KeyError_only == {"KeyError"}

\* lines 32-35: the except clauses around the directivity assignment
CaughtErrors == {"ValueError", "KeyError"}

\* ------------------------------------------------------------- file system
FileContent(kind, n, by) == [kind |-> kind, inv |-> n, by |-> by]

Exists(files, f) == f \in DOMAIN files

Put(files, f, c) == [x \in DOMAIN files \cup {f} |-> IF x = f THEN c ELSE files[x]]

\* a removal that leaves the file in place
Delete_keeps_file(files, f) == files

Delete(files, f) == [x \in DOMAIN files \ {f} |-> files[x]]

EmptyFs == [x \in {} |-> FileContent("none", 0, "none")]

\* ------------------------------------------------------------------- state
VARIABLES
    pc,                 \* statement of simulate about to run, "idle" or "exited"
    inv,                \* number of invocations started
    settings,           \* the settings mapping of the current invocation
    cwd,                \* working directory of the process
    fs,                 \* files on disk
    data_dict, tmp_ac_data, optical_path, tmp_json_filename, cmd, cur_dir,
    sensor_data,        \* locals of simulate
    outcome,            \* how the invocation left simulate
    h                   \* history of the current invocation

locals == <<data_dict, tmp_ac_data, optical_path, tmp_json_filename, cmd, cur_dir, sensor_data>>

vars == <<pc, inv, settings, cwd, fs, locals, outcome, h>>

Unset == "unset"

NoPath == Path(FALSE, <<>>)

\* the optical_path argument of simulate: the key of the optical stage's output
OpticalKey == <<"optical_forward_model_output", "fluence", 800>>

NoOutcome == [kind |-> "none", error |-> "none", value |-> -1]

NoHistory ==
    [entry_cwd |-> "home", entry_settings |-> <<>>, loads |-> <<>>,
     wrote |-> {}, json_written |-> FALSE, removed |-> {}, json_removed |-> FALSE,
     rm_attempted |-> {}, rm_failed |-> {}, engine |-> "not_run",
     engine_ran_in |-> Unset, engine_wrote |-> {}, chdir_done |-> FALSE,
     sensor_from |-> -1, dt_from |-> -1, reached |-> {}]

Reached(hist, step) == [hist EXCEPT !.reached = @ \cup {step}]

Init ==
    /\ pc = "idle"
    /\ inv = 0
    /\ settings = <<>>
    /\ cwd \in Dirs
    /\ fs = EmptyFs
    /\ data_dict = {}
    /\ tmp_ac_data = NoDataset
    /\ optical_path = NoPath
    /\ tmp_json_filename = NoPath
    /\ cmd = <<>>
    /\ cur_dir = Unset
    /\ sensor_data = -1
    /\ outcome = NoOutcome
    /\ h = NoHistory

Raise(err) ==
    /\ pc' = "exited"
    /\ outcome' = [kind |-> "raised", error |-> err, value |-> -1]

\* the statements of lines 37-45 left out of the sequence
Goto_skips_serialization(next) ==
    /\ pc' = (IF next = "savemat" THEN "chdir" ELSE next)
    /\ outcome' = outcome

Goto(next) ==
    /\ pc' = next
    /\ outcome' = outcome

\* The caller invokes simulate(settings, optical_path).  A settings mapping
\* that carries SETTINGS_JSON_PATH comes with the file the caller saved there.
Call(s) ==
    /\ pc \in {"idle", "exited"}
    /\ inv < MaxInvocations
    /\ inv' = inv + 1
    /\ settings' = s
    /\ fs' = IF HasKey(s, "SETTINGS_JSON_PATH")
             THEN Put(fs, Resolve(Get(s, "SETTINGS_JSON_PATH"), cwd),
                      FileContent("settings", 0, "caller"))
             ELSE fs
    /\ data_dict' = {}
    /\ tmp_ac_data' = NoDataset
    /\ optical_path' = NoPath
    /\ tmp_json_filename' = NoPath
    /\ cmd' = <<>>
    /\ cur_dir' = Unset
    /\ sensor_data' = -1
    /\ h' = [NoHistory EXCEPT !.entry_cwd = cwd, !.entry_settings = s]
    /\ pc' = "load_optical"
    /\ outcome' = NoOutcome
    /\ UNCHANGED cwd

\* line 13
LoadOptical(found) ==
    /\ pc = "load_optical"
    /\ IF found
       THEN /\ data_dict' = {"optical"}
            /\ Goto("select")
       ELSE /\ data_dict' = data_dict
            /\ Raise("MissingData")
    /\ h' = [(IF found THEN Reached(h, "load_optical") ELSE h) EXCEPT
                !.loads = Append(@, OpticalKey)]
    /\ UNCHANGED <<inv, settings, cwd, fs, tmp_ac_data, optical_path,
                   tmp_json_filename, cmd, cur_dir, sensor_data>>

\* lines 15-24
SelectSource(found, content) ==
    /\ pc = "select"
    /\ LET r == load_hdf5(found, SelectedDataset(settings), content)
       IN /\ h' = [(IF r.ok THEN Reached(h, "select") ELSE h) EXCEPT
                      !.loads = Append(@, r.key)]
          /\ IF r.ok
             THEN /\ tmp_ac_data' = r.data
                  /\ Goto("fields")
             ELSE /\ tmp_ac_data' = tmp_ac_data
                  /\ Raise("MissingData")
    /\ UNCHANGED <<inv, settings, cwd, fs, data_dict, optical_path,
                   tmp_json_filename, cmd, cur_dir, sensor_data>>

\* lines 26-35
LoadFields ==
    /\ pc = "fields"
    /\ LET req == FirstRequiredError(tmp_ac_data)
           opt == Rot90Error(tmp_ac_data, OptionalField)
           bad == {i \in 1..Len(RequiredFields) :
                      Rot90Error(tmp_ac_data, RequiredFields[i]) # "none"}
           assigned == {RequiredFields[i] : i \in {j \in 1..Len(RequiredFields) :
                                                     \A b \in bad : j < b}}
       IN /\ data_dict' = data_dict \cup assigned
                          \cup (IF req = "none" /\ opt = "none" THEN {OptionalField} ELSE {})
          /\ IF req # "none"
             THEN Raise(req) /\ h' = h
             ELSE IF opt = "none" \/ opt \in CaughtErrors
             THEN Goto("savemat") /\ h' = Reached(h, "fields")
             ELSE Raise(opt) /\ h' = h
    /\ UNCHANGED <<inv, settings, cwd, fs, tmp_ac_data, optical_path,
                   tmp_json_filename, cmd, cur_dir, sensor_data>>

\* lines 37-38
SaveMat(fail) ==
    /\ pc = "savemat"
    /\ optical_path' = PlusMat(Get(settings, "IPPAI_OUTPUT_PATH"))
    /\ IF fail
       THEN /\ Raise("SaveError")
            /\ UNCHANGED <<fs, h>>
       ELSE /\ Goto("json")
            /\ fs' = Put(fs, Resolve(optical_path', cwd), FileContent("data", inv, "bridge"))
            /\ h' = [Reached(h, "savemat") EXCEPT !.wrote = @ \cup {Resolve(optical_path', cwd)}]
    /\ UNCHANGED <<inv, settings, cwd, data_dict, tmp_ac_data,
                   tmp_json_filename, cmd, cur_dir, sensor_data>>

\* line 42
WriteJsonGuard(s) == ~HasKey(s, "SETTINGS_JSON_PATH")

\* lines 40-45; fault: open() raises, json.dump raises after open() created
\* the file, or neither
WriteJson(fault) ==
    /\ pc = "json"
    /\ tmp_json_filename' = PlusJson(SplitextRoot(Get(settings, "IPPAI_OUTPUT_PATH")))
    /\ LET f == Resolve(tmp_json_filename', cwd)
       IN IF WriteJsonGuard(settings)
          THEN CASE fault = "open" ->
                      /\ Raise("OSError")
                      /\ UNCHANGED <<fs, h>>
                 [] fault = "dump" ->
                      /\ Raise("TypeError")
                      /\ fs' = Put(fs, f, FileContent("partial", inv, "bridge"))
                      /\ h' = [h EXCEPT !.wrote = @ \cup {f}, !.json_written = TRUE]
                 [] OTHER ->
                      /\ Goto("chdir")
                      /\ fs' = Put(fs, f, FileContent("settings", inv, "bridge"))
                      /\ h' = [Reached(h, "json") EXCEPT !.wrote = @ \cup {f},
                                                         !.json_written = TRUE]
          ELSE /\ fault = "none"
               /\ Goto("chdir")
               /\ fs' = fs
               /\ h' = Reached(h, "json")
    /\ UNCHANGED <<inv, settings, cwd, data_dict, tmp_ac_data, optical_path,
                   cmd, cur_dir, sensor_data>>

\* the two script arguments in the other order
BuildCmd_swapped(s, json, data) ==
    << Get(s, "ACOUSTIC_MODEL_BINARY_PATH"), "-nodisplay", "-nosplash", "-r",
       << "addpath", Get(s, "ACOUSTIC_MODEL_SCRIPT_LOCATION"),
          Get(s, "ACOUSTIC_MODEL_SCRIPT"), data, json, "exit" >> >>

\* lines 47-54
BuildCmd(s, json, data) ==
    << Get(s, "ACOUSTIC_MODEL_BINARY_PATH"), "-nodisplay", "-nosplash", "-r",
       << "addpath", Get(s, "ACOUSTIC_MODEL_SCRIPT_LOCATION"),
          Get(s, "ACOUSTIC_MODEL_SCRIPT"), json, data, "exit" >> >>

\* lines 47-56
Chdir(fail) ==
    /\ pc = "chdir"
    /\ cmd' = BuildCmd(settings, tmp_json_filename, optical_path)
    /\ cur_dir' = cwd
    /\ IF fail
       THEN /\ Raise("FileNotFoundError")
            /\ UNCHANGED <<cwd, h>>
       ELSE /\ Goto("run")
            /\ cwd' = Get(settings, "SIMULATION_PATH")
            /\ h' = [Reached(h, "chdir") EXCEPT !.chdir_done = TRUE]
    /\ UNCHANGED <<inv, settings, fs, data_dict, tmp_ac_data, optical_path,
                   tmp_json_filename, sensor_data>>

\* ------------------------------------------------------------------ engine
\* The engine is a separate process started in the working directory of the
\* bridge.  It opens the two paths of the script expression, and a run that
\* got as far as its output stage leaves <data>.mat and <data>dt.mat.
SettingsArg(c) == c[5][4]

DataArg(c) == c[5][5]

Readable(files, f, kind) == Exists(files, f) /\ files[f].kind = kind

EngineOutcomes(files, d, c) ==
    LET data_ok == Readable(files, Resolve(DataArg(c), d), "data")
        json_ok == Readable(files, Resolve(SettingsArg(c), d), "settings")
    IN {[status |-> "raised", writes |-> {}]}
       \cup {[status |-> "nonzero", writes |-> w] :
                w \in IF data_ok THEN SUBSET {"sensor", "dt"} ELSE {{}}}
       \cup (IF data_ok /\ json_ok
             THEN {[status |-> "zero", writes |-> {"sensor", "dt"}]} ELSE {})

EngineOutputPath(c, kind) ==
    IF kind = "sensor" THEN PlusMat(DataArg(c)) ELSE PlusDtMat(DataArg(c))

PutAll(files, d, c, n) ==
    [x \in DOMAIN files \cup {Resolve(EngineOutputPath(c, k), d) : k \in n.writes} |->
        IF \E k \in n.writes : x = Resolve(EngineOutputPath(c, k), d)
        THEN FileContent(CHOOSE k \in n.writes : x = Resolve(EngineOutputPath(c, k), d),
                         n.inv, "engine")
        ELSE files[x]]

\* line 58: subprocess.run(cmd) raises only when the process cannot be
\* started; the CompletedProcess it returns is dropped.
subprocess_run_raises(status) == status = "raised"

RunEngine(r) ==
    /\ pc = "run"
    /\ r \in EngineOutcomes(fs, cwd, cmd)
    /\ fs' = PutAll(fs, cwd, cmd, [writes |-> r.writes, inv |-> inv])
    /\ h' = [(IF subprocess_run_raises(r.status) THEN h ELSE Reached(h, "run")) EXCEPT
                !.engine = r.status, !.engine_ran_in = cwd,
                !.engine_wrote = {Resolve(EngineOutputPath(cmd, k), cwd) : k \in r.writes}]
    /\ IF subprocess_run_raises(r.status) THEN Raise("OSError") ELSE Goto("read_sensor")
    /\ UNCHANGED <<inv, settings, cwd, locals>>

\* sio.loadmat(path)[variable]
loadmat_error(files, f, kind) ==
    IF ~Exists(files, f) THEN "FileNotFoundError"
    ELSE IF files[f].kind # kind THEN "KeyError"
    ELSE "none"

\* line 60
ReadSensor ==
    /\ pc = "read_sensor"
    /\ LET f == Resolve(PlusMat(optical_path), cwd)
           err == loadmat_error(fs, f, "sensor")
       IN IF err # "none"
          THEN /\ Raise(err)
               /\ UNCHANGED <<sensor_data, h>>
          ELSE /\ Goto("read_dt")
               /\ sensor_data' = fs[f].inv
               /\ h' = [Reached(h, "read_sensor") EXCEPT !.sensor_from = fs[f].inv]
    /\ UNCHANGED <<inv, settings, cwd, fs, data_dict, tmp_ac_data, optical_path,
                   tmp_json_filename, cmd, cur_dir>>

\* line 61
ReadDt ==
    /\ pc = "read_dt"
    /\ LET f == Resolve(PlusDtMat(optical_path), cwd)
           err == loadmat_error(fs, f, "dt")
       IN IF err # "none"
          THEN /\ Raise(err)
               /\ UNCHANGED <<settings, h>>
          ELSE /\ Goto("rm_data")
               /\ settings' = SetItem(settings, "dt_acoustic_sim", fs[f].inv)
               /\ h' = [Reached(h, "read_dt") EXCEPT !.dt_from = fs[f].inv]
    /\ UNCHANGED <<inv, cwd, fs, locals>>

\* os.remove(path); denied: the file is there but the system refuses
Remove(step, p, denied, next) ==
    LET f == Resolve(p, cwd)
    IN IF ~Exists(fs, f)
       THEN /\ Raise("FileNotFoundError")
            /\ fs' = fs
            /\ h' = [h EXCEPT !.rm_attempted = @ \cup {f}, !.rm_failed = @ \cup {f}]
       ELSE IF denied
       THEN /\ Raise("PermissionError")
            /\ fs' = fs
            /\ h' = [h EXCEPT !.rm_attempted = @ \cup {f}, !.rm_failed = @ \cup {f}]
       ELSE /\ Goto(next)
            /\ fs' = Delete(fs, f)
            /\ h' = [Reached(h, step) EXCEPT
                        !.rm_attempted = @ \cup {f}, !.removed = @ \cup {f},
                        !.json_removed = @ \/ step = "rm_json"]

\* line 63
RemoveData(denied) ==
    /\ pc = "rm_data"
    /\ Remove("rm_data", optical_path, denied, "rm_sensor")
    /\ UNCHANGED <<inv, settings, cwd, locals>>

\* line 64
RemoveSensor(denied) ==
    /\ pc = "rm_sensor"
    /\ Remove("rm_sensor", PlusMat(optical_path), denied, "rm_dt")
    /\ UNCHANGED <<inv, settings, cwd, locals>>

\* line 65
RemoveDt(denied) ==
    /\ pc = "rm_dt"
    /\ Remove("rm_dt", PlusDtMat(optical_path), denied, "rm_json")
    /\ UNCHANGED <<inv, settings, cwd, locals>>

\* the settings file removed whoever owns it
RemoveJsonGuard_always(s) == TRUE

\* line 66
RemoveJsonGuard(s) == ~HasKey(s, "SETTINGS_JSON_PATH")

\* lines 66-67
RemoveJson(denied) ==
    /\ pc = "rm_json"
    /\ IF RemoveJsonGuard(settings)
       THEN Remove("rm_json", tmp_json_filename, denied, "restore")
       ELSE /\ ~denied
            /\ Goto("restore")
            /\ fs' = fs
            /\ h' = Reached(h, "rm_json")
    /\ UNCHANGED <<inv, settings, cwd, locals>>

\* line 68
RestoreCwd ==
    /\ pc = "restore"
    /\ cwd' = cur_dir
    /\ h' = Reached(h, "restore")
    /\ Goto("return")
    /\ UNCHANGED <<inv, settings, fs, locals>>

\* the names simulate binds before line 70
LocalNames ==
    {"settings", "optical_path", "data_dict", "tmp_ac_data", "json_path", "ext",
     "tmp_json_filename", "cmd", "cur_dir", "sensor_data"}

\* line 70: the name in the return statement
ReturnedName == "raw_time_series_data"

\* line 70
Return ==
    /\ pc = "return"
    /\ pc' = "exited"
    /\ outcome' = IF ReturnedName \in LocalNames
                  THEN [kind |-> "returned", error |-> "none", value |-> sensor_data]
                  ELSE [kind |-> "raised", error |-> "NameError", value |-> -1]
    /\ h' = IF ReturnedName \in LocalNames THEN Reached(h, "return") ELSE h
    /\ UNCHANGED <<inv, settings, cwd, fs, locals>>

Next ==
    \/ \E s \in SettingsInputs : Call(s)
    \/ \E found \in BOOLEAN : LoadOptical(found)
    \/ \E found \in BOOLEAN, content \in Datasets : SelectSource(found, content)
    \/ LoadFields
    \/ \E fail \in BOOLEAN : SaveMat(fail)
    \/ \E fault \in {"none", "open", "dump"} : WriteJson(fault)
    \/ \E fail \in BOOLEAN : Chdir(fail)
    \/ \E r \in [status : {"raised", "zero", "nonzero"}, writes : SUBSET {"sensor", "dt"}] :
          RunEngine(r)
    \/ ReadSensor
    \/ ReadDt
    \/ \E denied \in BOOLEAN : RemoveData(denied)
    \/ \E denied \in BOOLEAN : RemoveSensor(denied)
    \/ \E denied \in BOOLEAN : RemoveDt(denied)
    \/ \E denied \in BOOLEAN : RemoveJson(denied)
    \/ RestoreCwd
    \/ Return

Spec == Init /\ [][Next]_vars

\* ------------------------------------------------------------------ claims
Exited == pc = "exited"

\* the files this invocation of simulate created: those it wrote itself and
\* those its engine run wrote
Owned == h.wrote \cup h.engine_wrote

SettingsKey == "SETTINGS_JSON_PATH"

\* C1: when simulate exits, on every exit path, none of the files the
\* invocation created (data container, bridge-written settings JSON, engine
\* outputs) still exists.
C1_CleanupTotality ==
    Exited => \A f \in Owned : ~Exists(fs, f)

\* C2: once simulate has captured the working directory and switched to the
\* simulation directory, the working directory equals the captured value
\* when simulate exits, on every exit path.
C2_WorkingDirectoryRestored ==
    (Exited /\ h.chdir_done) => cwd = cur_dir

\* C3: when all steps succeed, simulate returns the sensor data it read and
\* settings holds the engine's timestep under dt_acoustic_sim; it does not
\* end in an error.
C3_SuccessfulCompletion ==
    (Exited /\ "restore" \in h.reached) =>
        /\ outcome.kind = "returned"
        /\ outcome.value = h.sensor_from
        /\ HasKey(settings, "dt_acoustic_sim")
        /\ Get(settings, "dt_acoustic_sim") = h.dt_from

\* C4: after a non-zero engine exit status simulate never retrieves output,
\* and whenever the status is non-zero or an output file is missing the
\* invocation ends with an error.
C4_EngineFailureFatal ==
    /\ h.engine = "nonzero" => "read_sensor" \notin h.reached
    /\ (Exited /\ h.engine = "nonzero") => outcome.kind = "raised"
    /\ (Exited /\ h.engine = "zero" /\ Cardinality(h.engine_wrote) < 2) =>
          outcome.kind = "raised"

\* C5: simulate writes a settings JSON file exactly when settings lacks the
\* settings-path key at serialization, deletes one only if it wrote one in
\* the same invocation, and with the key present creates, overwrites and
\* deletes no settings file: the caller's file stays as the caller left it.
C5_SettingsFileOwnership ==
    /\ "json" \in h.reached => (h.json_written <=> ~HasKey(settings, SettingsKey))
    /\ h.json_written => ~HasKey(settings, SettingsKey)
    /\ h.json_removed => h.json_written
    /\ (inv > 0 /\ HasKey(settings, SettingsKey)) =>
          LET f == Resolve(Get(settings, SettingsKey), h.entry_cwd)
          IN /\ ~h.json_written /\ ~h.json_removed
             /\ f \notin h.wrote \cup h.removed
             /\ Exists(fs, f) /\ fs[f].by = "caller"

C5_Witness ==
    /\ Exited /\ HasKey(settings, SettingsKey)
    /\ "rm_json" \in h.reached
    /\ h.removed # {}

\* C6: the acoustic fields are loaded from the upsampled dataset of the
\* wavelength exactly when PERFORM_UPSAMPLING is present and true, from the
\* original-resolution dataset otherwise, and one dataset is loaded.
C6_SourceSelection ==
    LET s == h.entry_settings
        up == HasKey(s, "PERFORM_UPSAMPLING") /\ Get(s, "PERFORM_UPSAMPLING") = TRUE
        expected == <<"simulation_properties",
                      IF up THEN "upsampled" ELSE "original", Get(s, "WAVELENGTH")>>
    IN /\ Len(h.loads) >= 2 => h.loads = <<OpticalKey, expected>>
       /\ "select" \in h.reached => Len(h.loads) = 2

C6_Witness ==
    /\ "fields" \in h.reached
    /\ Len(h.loads) = 2
    /\ h.loads[2][2] = "upsampled"

\* C7: a failure of any step reaches the caller only after the deletion of
\* every artifact the invocation owns has been carried out or attempted.
C7_ErrorAfterCleanup ==
    (Exited /\ outcome.kind = "raised") => Owned \subseteq h.rm_attempted

\* C8: with the four required fields present and the directivity angle
\* absent or malformed, simulate goes on to serialization and the engine
\* with a bundle whose directivity entry it did not set; with a required
\* field absent it fails before writing a file or invoking the engine.
FieldsStepDone == "select" \in h.reached /\ pc # "fields"

RequiredState(st) == \E i \in 1..Len(RequiredFields) : tmp_ac_data[RequiredFields[i]] = st

C8_OptionalFieldTolerance ==
    /\ (FieldsStepDone /\ tmp_ac_data[OptionalField] # "ok") =>
          /\ "fields" \in h.reached
          /\ OptionalField \notin data_dict
          /\ {RequiredFields[i] : i \in 1..Len(RequiredFields)} \subseteq data_dict
    /\ (FieldsStepDone /\ RequiredState("absent")) =>
          /\ Exited /\ outcome.kind = "raised"
          /\ h.wrote = {} /\ h.engine = "not_run" /\ h.engine_wrote = {}
          /\ "savemat" \notin h.reached

C8_Witness ==
    /\ h.engine = "zero"
    /\ tmp_ac_data[OptionalField] = "malformed"
    /\ OptionalField \notin data_dict

\* C9: when a deletion fails, simulate still attempts every other deletion,
\* restores the working directory, and reports the outcome the invocation
\* had before cleanup, not the deletion error.
C9_CleanupFailureNonFatal ==
    (Exited /\ h.rm_failed # {}) =>
        /\ Owned \subseteq h.rm_attempted
        /\ cwd = cur_dir
        /\ outcome.kind = "returned"

\* C10: the sensor data and the timestep an invocation reads were written
\* by that invocation's own engine run.
C10_NoStaleRead ==
    /\ h.sensor_from # -1 => h.sensor_from = inv /\ h.engine_wrote # {}
    /\ h.dt_from # -1 => h.dt_from = inv

\* C11: field loads and rotations finish before the data container is
\* written, the data container and the conditional settings file are written
\* before the engine is started, and the engine has exited before an output
\* file is read.
C11_StepOrdering ==
    /\ h.wrote # {} => {"load_optical", "select", "fields"} \subseteq h.reached
    /\ h.engine # "not_run" =>
          /\ {"savemat", "json", "chdir"} \subseteq h.reached
          /\ Resolve(optical_path, h.entry_cwd) \in h.wrote
          /\ h.json_written <=> ~HasKey(settings, SettingsKey)
          /\ h.json_written => Resolve(tmp_json_filename, h.entry_cwd) \in h.wrote
    /\ (pc \in {"read_sensor", "read_dt"} \/ h.sensor_from # -1 \/ h.dt_from # -1) =>
          /\ "run" \in h.reached
          /\ h.engine \in {"zero", "nonzero"}

C11_Witness ==
    /\ h.dt_from # -1
    /\ h.engine = "zero"

\* C14: after an invocation every key that was in settings before it is
\* still there, in the same order, with its value unchanged unless it is
\* dt_acoustic_sim, and dt_acoustic_sim is the only key added.
C14_SettingsFrame ==
    inv > 0 =>
        LET s0 == h.entry_settings
        IN /\ Len(settings) >= Len(s0)
           /\ Len(settings) <= Len(s0) + 1
           /\ \A i \in 1..Len(s0) :
                 /\ settings[i][1] = s0[i][1]
                 /\ s0[i][1] # "dt_acoustic_sim" => settings[i][2] = s0[i][2]
           /\ \A i \in (Len(s0) + 1)..Len(settings) : settings[i][1] = "dt_acoustic_sim"

C14_Witness ==
    /\ Exited
    /\ "read_dt" \in h.reached
    /\ ~HasKey(h.entry_settings, "dt_acoustic_sim")
    /\ HasKey(settings, "dt_acoustic_sim")

\* C16: the command is the engine binary, -nodisplay, -nosplash, -r and one
\* expression that adds the script directory, calls the entry-point script
\* with the settings-file path and then the data-container path, and exits.
C16_CommandLine ==
    cmd # <<>> =>
        LET out == Get(h.entry_settings, "IPPAI_OUTPUT_PATH")
        IN /\ Len(cmd) = 5
           /\ cmd[1] = Get(h.entry_settings, "ACOUSTIC_MODEL_BINARY_PATH")
           /\ <<cmd[2], cmd[3], cmd[4]>> = <<"-nodisplay", "-nosplash", "-r">>
           /\ Len(cmd[5]) = 6
           /\ cmd[5][1] = "addpath"
           /\ cmd[5][2] = Get(h.entry_settings, "ACOUSTIC_MODEL_SCRIPT_LOCATION")
           /\ cmd[5][3] = Get(h.entry_settings, "ACOUSTIC_MODEL_SCRIPT")
           /\ cmd[5][4] = PlusJson(SplitextRoot(out))
           /\ cmd[5][5] = PlusMat(out)
           /\ cmd[5][6] = "exit"

C16_Witness ==
    /\ cmd # <<>>
    /\ h.engine = "zero"

\* C18: the settings path handed to the engine is the path of the file
\* simulate wrote when settings has no settings-path key, and the path stored
\* under the key when it has one.
C18_SettingsPathInForce ==
    cmd # <<>> =>
        SettingsArg(cmd) = IF HasKey(settings, SettingsKey)
                           THEN Get(settings, SettingsKey)
                           ELSE tmp_json_filename

\* C19: with an absolute output path, when every step through output
\* retrieval and every deletion succeeded, by the time control leaves
\* simulate the data container, both engine outputs and a bridge-written
\* settings file are gone, each removed once and only after both outputs
\* were read, and the working directory is restored.
AbsoluteOutput == inv > 0 /\ Get(h.entry_settings, "IPPAI_OUTPUT_PATH").abs

C19_SuccessPathCleanup ==
    /\ (AbsoluteOutput /\ h.removed # {}) => {"read_sensor", "read_dt"} \subseteq h.reached
    /\ (AbsoluteOutput /\ Exited /\ "rm_json" \in h.reached) =>
          /\ Owned \subseteq h.removed
          /\ \A f \in h.removed : ~Exists(fs, f)
          /\ h.removed = {Resolve(optical_path, h.entry_cwd),
                          Resolve(PlusMat(optical_path), cur_dir),
                          Resolve(PlusDtMat(optical_path), cur_dir)}
                         \cup (IF h.json_written
                               THEN {Resolve(tmp_json_filename, h.entry_cwd)} ELSE {})
          /\ Cardinality(h.removed) = IF h.json_written THEN 4 ELSE 3
          /\ h.rm_failed = {}
          /\ cwd = cur_dir /\ cwd = h.entry_cwd

C19_Witness ==
    /\ AbsoluteOutput /\ Exited
    /\ "restore" \in h.reached
    /\ h.json_written
    /\ h.entry_cwd # "sim"

\* C20: for every output path, relative or absolute, the files simulate
\* wrote before switching the working directory are the files the engine is
\* pointed at and the files simulate deletes after the switch.
C20_PathIdentity ==
    /\ h.engine # "not_run" =>
          /\ Resolve(DataArg(cmd), h.engine_ran_in) \in h.wrote
          /\ h.json_written => Resolve(SettingsArg(cmd), h.engine_ran_in) \in h.wrote
    /\ "rm_data" \in h.reached => Resolve(optical_path, h.entry_cwd) \in h.removed
    /\ h.json_removed => Resolve(tmp_json_filename, h.entry_cwd) \in h.removed

\* ---------------------------------------------------- geometry transform
\* np.rot90 on a 2D array, an array being a sequence of rows.  RotSpec
\* applies the transform of lines 26-31 again and again to one field:
\* tmp_ac_data is the field as loaded, data_dict the field after inv
\* applications.
MaxDim == 3

RotationK == 3

Arrays ==
    UNION {[1..r -> [1..c -> {0, 1}]] : r \in 1..MaxDim, c \in 1..MaxDim}

transpose(m) == [j \in 1..Len(m[1]) |-> [i \in 1..Len(m) |-> m[i][j]]]

flip_axis0(m) == [i \in 1..Len(m) |-> m[Len(m) + 1 - i]]

\* the columns moved round by one place
flip_axis1_shifted(m) ==
    [i \in 1..Len(m) |-> [j \in 1..Len(m[i]) |-> m[i][(j % Len(m[i])) + 1]]]

flip_axis1(m) ==
    [i \in 1..Len(m) |-> [j \in 1..Len(m[i]) |-> m[i][Len(m[i]) + 1 - j]]]

rot90(m, k) ==
    CASE k % 4 = 0 -> m
      [] k % 4 = 2 -> flip_axis1(flip_axis0(m))
      [] k % 4 = 1 -> transpose(flip_axis1(m))
      [] OTHER -> flip_axis1(transpose(m))

RotInit ==
    /\ pc = "rotate"
    /\ inv = 0
    /\ tmp_ac_data \in Arrays
    /\ data_dict = tmp_ac_data
    /\ settings = <<>>
    /\ cwd = "home"
    /\ fs = EmptyFs
    /\ optical_path = NoPath
    /\ tmp_json_filename = NoPath
    /\ cmd = <<>>
    /\ cur_dir = Unset
    /\ sensor_data = -1
    /\ outcome = NoOutcome
    /\ h = NoHistory

\* lines 26-31: data_dict[field] = np.rot90(..., 3)
Rotate ==
    /\ pc = "rotate"
    /\ inv < 4
    /\ inv' = inv + 1
    /\ data_dict' = rot90(data_dict, RotationK)
    /\ UNCHANGED <<pc, settings, cwd, fs, tmp_ac_data, optical_path,
                   tmp_json_filename, cmd, cur_dir, sensor_data, outcome, h>>

RotNext == Rotate

RotSpec == RotInit /\ [][RotNext]_vars

\* C15: four applications of the geometry transform give back an array of
\* the same shape with every element at its original position, for square
\* and non-square arrays.
C15_RotationInvolution ==
    (pc = "rotate" /\ inv = 4) =>
        /\ Len(data_dict) = Len(tmp_ac_data)
        /\ \A i \in 1..Len(tmp_ac_data) :
              /\ Len(data_dict[i]) = Len(tmp_ac_data[i])
              /\ \A j \in 1..Len(tmp_ac_data[i]) : data_dict[i][j] = tmp_ac_data[i][j]

C15_Witness ==
    /\ pc = "rotate" /\ inv = 4
    /\ Len(tmp_ac_data) # Len(tmp_ac_data[1])
    /\ \E i \in 1..Len(tmp_ac_data) : \E j \in 1..Len(tmp_ac_data[1]) :
          tmp_ac_data[i][j] # tmp_ac_data[1][1]

\* --------------------------------------------------- bilinear_interpolation
\* simpa.utils.calculate.bilinear_interpolation(image, x, y, z = None).
\* InterpSpec makes one call: settings holds the arguments of the call,
\* outcome what the call returns.  Positions are in half pixels, weights in
\* quarters (2D) or eighths (3D) of a pixel.
ImageShapes == UNION {[1..n -> {2, 3}] : n \in 2..3}

HalfPositions == 0..4

NoneArg == [none |-> TRUE, v |-> 0]

TensorArg(v) == [none |-> FALSE, v |-> v]

InterpArgs ==
    [shape : ImageShapes, x : HalfPositions, y : HalfPositions,
     z : {NoneArg} \cup {TensorArg(v) : v \in HalfPositions}]

ndim(shape) == Len(shape)

\* torch.floor of a position given in half pixels
floor(half) == half \div 2

\* torch.clamp(v, lo, hi)
clamp(v, lo, hi) == IF v < lo THEN lo ELSE IF v > hi THEN hi ELSE v

\* lines 243-269
Branch2dim(a) ==
    LET x0 == clamp(floor(a.x), 0, a.shape[1] - 2)
        x1 == clamp(floor(a.x) + 1, 1, a.shape[1] - 1)
        y0 == clamp(floor(a.y), 0, a.shape[2] - 2)
        y1 == clamp(floor(a.y) + 1, 1, a.shape[2] - 1)
    IN [branch |-> "2dim",
        neighbours |-> <<x0, x1, y0, y1>>,
        weights |-> << (2 * x1 - a.x) * (2 * y1 - a.y), (2 * x1 - a.x) * (a.y - 2 * y0),
                       (a.x - 2 * x0) * (2 * y1 - a.y), (a.x - 2 * x0) * (a.y - 2 * y0) >>]

\* lines 271-315
Branch3dim(a) ==
    LET x0 == clamp(floor(a.x), 0, a.shape[1] - 2)
        x1 == clamp(floor(a.x) + 1, 1, a.shape[1] - 1)
        y0 == clamp(floor(a.y), 0, a.shape[2] - 2)
        y1 == clamp(floor(a.y) + 1, 1, a.shape[2] - 1)
        z0 == clamp(floor(a.z.v), 0, a.shape[3] - 2)
        z1 == clamp(floor(a.z.v) + 1, 1, a.shape[3] - 1)
    IN [branch |-> "3dim",
        neighbours |-> <<x0, x1, y0, y1, z0, z1>>,
        weights |-> << (2 * x1 - a.x) * (2 * y1 - a.y) * (2 * z1 - a.z.v),
                       (2 * x1 - a.x) * (a.y - 2 * y0) * (2 * z1 - a.z.v),
                       (a.x - 2 * x0) * (2 * y1 - a.y) * (2 * z1 - a.z.v),
                       (a.x - 2 * x0) * (a.y - 2 * y0) * (2 * z1 - a.z.v),
                       (2 * x1 - a.x) * (2 * y1 - a.y) * (a.z.v - 2 * z0),
                       (2 * x1 - a.x) * (a.y - 2 * y0) * (a.z.v - 2 * z0),
                       (a.x - 2 * x0) * (2 * y1 - a.y) * (a.z.v - 2 * z0),
                       (a.x - 2 * x0) * (a.y - 2 * y0) * (a.z.v - 2 * z0) >>]

\* lines 317-318
ReturnNone == [branch |-> "None", neighbours |-> <<>>, weights |-> <<>>]

\* lines 243, 271, 317: the conditions in the order the code tests them
bilinear_interpolation(a) ==
    IF ndim(a.shape) < 3 \/ a.z.none THEN Branch2dim(a)
    ELSE IF ndim(a.shape) = 2 THEN Branch3dim(a)
    ELSE ReturnNone

InterpInit ==
    /\ pc = "call"
    /\ settings \in InterpArgs
    /\ outcome = NoOutcome
    /\ inv = 0
    /\ cwd = "home"
    /\ fs = EmptyFs
    /\ data_dict = {}
    /\ tmp_ac_data = NoDataset
    /\ optical_path = NoPath
    /\ tmp_json_filename = NoPath
    /\ cmd = <<>>
    /\ cur_dir = Unset
    /\ sensor_data = -1
    /\ h = NoHistory

Interpolate ==
    /\ pc = "call"
    /\ pc' = "exited"
    /\ outcome' = [kind |-> "returned", error |-> "none",
                   value |-> bilinear_interpolation(settings)]
    /\ UNCHANGED <<inv, settings, cwd, fs, locals, h>>

InterpNext == Interpolate

InterpSpec == InterpInit /\ [][InterpNext]_vars

\* C17: with a 3-dimensional image and a z that is not None the call takes
\* the 3-dimensional branch and returns interpolated values, never None;
\* with a 2-dimensional image or without z it takes the 2-dimensional branch.
C17_BilinearBranches ==
    (pc = "exited" /\ outcome.kind = "returned") =>
        /\ (ndim(settings.shape) = 3 /\ ~settings.z.none) =>
              outcome.value.branch = "3dim"
        /\ (ndim(settings.shape) = 2 \/ settings.z.none) =>
              outcome.value.branch = "2dim"
        /\ outcome.value.branch # "None"

\* ------------------------------------------------- concurrent invocations
\* ConcSpec: two threads of one process each run simulate once.  The working
\* directory and the files are shared; pc, settings, the locals, outcome and
\* h are functions of the thread.  The store holds every field, so lines
\* 13-35 are one step.
Threads == {1, 2}

SimDirs == {"sim", "sim2"}

ConcSettings(out, d) ==
    SetItem(MkSettings(out, "absent", "absent", FALSE), "SIMULATION_PATH", d)

ConcInputs == {ConcSettings(Path(TRUE, n), d) : n \in OutNames, d \in SimDirs}

Set(f, t, v) == [f EXCEPT ![t] = v]

ConcInit ==
    /\ pc = [t \in Threads |-> "load_optical"]
    /\ inv = Cardinality(Threads)
    /\ settings \in [Threads -> ConcInputs]
    /\ cwd = "home"
    /\ fs = EmptyFs
    /\ data_dict = [t \in Threads |-> {}]
    /\ tmp_ac_data = [t \in Threads |-> NoDataset]
    /\ optical_path = [t \in Threads |-> NoPath]
    /\ tmp_json_filename = [t \in Threads |-> NoPath]
    /\ cmd = [t \in Threads |-> <<>>]
    /\ cur_dir = [t \in Threads |-> Unset]
    /\ sensor_data = [t \in Threads |-> -1]
    /\ outcome = [t \in Threads |-> NoOutcome]
    /\ h = [t \in Threads |-> [NoHistory EXCEPT !.entry_cwd = "home",
                                                !.entry_settings = settings[t]]]

T_Raise(t, err) ==
    /\ pc' = Set(pc, t, "exited")
    /\ outcome' = Set(outcome, t, [kind |-> "raised", error |-> err, value |-> -1])

T_Goto(t, next) ==
    /\ pc' = Set(pc, t, next)
    /\ outcome' = outcome

\* lines 13-35
T_LoadFields(t) ==
    /\ pc[t] = "load_optical"
    /\ tmp_ac_data' = Set(tmp_ac_data, t, [f \in FieldNames |-> "ok"])
    /\ data_dict' = Set(data_dict, t, {"optical"} \cup FieldNames)
    /\ h' = Set(h, t, [h[t] EXCEPT
                !.reached = @ \cup {"load_optical", "select", "fields"},
                !.loads = <<OpticalKey, SelectedDataset(settings[t])>>])
    /\ T_Goto(t, "savemat")
    /\ UNCHANGED <<inv, settings, cwd, fs, optical_path, tmp_json_filename, cmd,
                   cur_dir, sensor_data>>

\* lines 37-38
T_SaveMat(t, fail) ==
    /\ pc[t] = "savemat"
    /\ LET p == PlusMat(Get(settings[t], "IPPAI_OUTPUT_PATH"))
       IN /\ optical_path' = Set(optical_path, t, p)
          /\ IF fail
             THEN /\ T_Raise(t, "SaveError")
                  /\ UNCHANGED <<fs, h>>
             ELSE /\ T_Goto(t, "json")
                  /\ fs' = Put(fs, Resolve(p, cwd), FileContent("data", t, "bridge"))
                  /\ h' = Set(h, t, [Reached(h[t], "savemat") EXCEPT
                                        !.wrote = @ \cup {Resolve(p, cwd)}])
    /\ UNCHANGED <<inv, settings, cwd, data_dict, tmp_ac_data, tmp_json_filename,
                   cmd, cur_dir, sensor_data>>

\* lines 40-45
T_WriteJson(t, fault) ==
    /\ pc[t] = "json"
    /\ LET p == PlusJson(SplitextRoot(Get(settings[t], "IPPAI_OUTPUT_PATH")))
           f == Resolve(p, cwd)
       IN /\ tmp_json_filename' = Set(tmp_json_filename, t, p)
          /\ IF WriteJsonGuard(settings[t])
             THEN CASE fault = "open" ->
                         /\ T_Raise(t, "OSError")
                         /\ UNCHANGED <<fs, h>>
                    [] fault = "dump" ->
                         /\ T_Raise(t, "TypeError")
                         /\ fs' = Put(fs, f, FileContent("partial", t, "bridge"))
                         /\ h' = Set(h, t, [h[t] EXCEPT !.wrote = @ \cup {f},
                                                         !.json_written = TRUE])
                    [] OTHER ->
                         /\ T_Goto(t, "chdir")
                         /\ fs' = Put(fs, f, FileContent("settings", t, "bridge"))
                         /\ h' = Set(h, t, [Reached(h[t], "json") EXCEPT
                                               !.wrote = @ \cup {f}, !.json_written = TRUE])
             ELSE /\ fault = "none"
                  /\ T_Goto(t, "chdir")
                  /\ fs' = fs
                  /\ h' = Set(h, t, Reached(h[t], "json"))
    /\ UNCHANGED <<inv, settings, cwd, data_dict, tmp_ac_data, optical_path,
                   cmd, cur_dir, sensor_data>>

\* lines 47-55
T_GetCwd(t) ==
    /\ pc[t] = "chdir"
    /\ cmd' = Set(cmd, t, BuildCmd(settings[t], tmp_json_filename[t], optical_path[t]))
    /\ cur_dir' = Set(cur_dir, t, cwd)
    /\ T_Goto(t, "chdir56")
    /\ UNCHANGED <<inv, settings, cwd, fs, data_dict, tmp_ac_data, optical_path,
                   tmp_json_filename, sensor_data, h>>

\* line 56
T_Chdir(t, fail) ==
    /\ pc[t] = "chdir56"
    /\ IF fail
       THEN /\ T_Raise(t, "FileNotFoundError")
            /\ UNCHANGED <<cwd, h>>
       ELSE /\ T_Goto(t, "run")
            /\ cwd' = Get(settings[t], "SIMULATION_PATH")
            /\ h' = Set(h, t, [Reached(h[t], "chdir") EXCEPT !.chdir_done = TRUE])
    /\ UNCHANGED <<inv, settings, fs, locals>>

\* line 58: the engine starts in the working directory the process has at
\* that moment
T_RunEngine(t, r) ==
    /\ pc[t] = "run"
    /\ r \in EngineOutcomes(fs, cwd, cmd[t])
    /\ fs' = PutAll(fs, cwd, cmd[t], [writes |-> r.writes, inv |-> t])
    /\ h' = Set(h, t,
                [(IF subprocess_run_raises(r.status) THEN h[t] ELSE Reached(h[t], "run"))
                 EXCEPT !.engine = r.status, !.engine_ran_in = cwd,
                        !.engine_wrote =
                            {Resolve(EngineOutputPath(cmd[t], k), cwd) : k \in r.writes}])
    /\ IF subprocess_run_raises(r.status)
       THEN T_Raise(t, "OSError") ELSE T_Goto(t, "read_sensor")
    /\ UNCHANGED <<inv, settings, cwd, locals>>

\* line 60
T_ReadSensor(t) ==
    /\ pc[t] = "read_sensor"
    /\ LET f == Resolve(PlusMat(optical_path[t]), cwd)
           err == loadmat_error(fs, f, "sensor")
       IN IF err # "none"
          THEN /\ T_Raise(t, err)
               /\ UNCHANGED <<sensor_data, h>>
          ELSE /\ T_Goto(t, "read_dt")
               /\ sensor_data' = Set(sensor_data, t, fs[f].inv)
               /\ h' = Set(h, t, [Reached(h[t], "read_sensor") EXCEPT
                                     !.sensor_from = fs[f].inv])
    /\ UNCHANGED <<inv, settings, cwd, fs, data_dict, tmp_ac_data, optical_path,
                   tmp_json_filename, cmd, cur_dir>>

\* line 61
T_ReadDt(t) ==
    /\ pc[t] = "read_dt"
    /\ LET f == Resolve(PlusDtMat(optical_path[t]), cwd)
           err == loadmat_error(fs, f, "dt")
       IN IF err # "none"
          THEN /\ T_Raise(t, err)
               /\ UNCHANGED <<settings, h>>
          ELSE /\ T_Goto(t, "rm_data")
               /\ settings' = Set(settings, t,
                                  SetItem(settings[t], "dt_acoustic_sim", fs[f].inv))
               /\ h' = Set(h, t, [Reached(h[t], "read_dt") EXCEPT !.dt_from = fs[f].inv])
    /\ UNCHANGED <<inv, cwd, fs, locals>>

\* os.remove(path) in thread t
T_Remove(t, step, p, denied, next) ==
    LET f == Resolve(p, cwd)
    IN IF ~Exists(fs, f) \/ denied
       THEN /\ T_Raise(t, IF Exists(fs, f) THEN "PermissionError" ELSE "FileNotFoundError")
            /\ fs' = fs
            /\ h' = Set(h, t, [h[t] EXCEPT !.rm_attempted = @ \cup {f},
                                            !.rm_failed = @ \cup {f}])
       ELSE /\ T_Goto(t, next)
            /\ fs' = Delete(fs, f)
            /\ h' = Set(h, t, [Reached(h[t], step) EXCEPT
                                  !.rm_attempted = @ \cup {f}, !.removed = @ \cup {f},
                                  !.json_removed = @ \/ step = "rm_json"])

\* line 63
T_RemoveData(t, denied) ==
    /\ pc[t] = "rm_data"
    /\ T_Remove(t, "rm_data", optical_path[t], denied, "rm_sensor")
    /\ UNCHANGED <<inv, settings, cwd, locals>>

\* line 64
T_RemoveSensor(t, denied) ==
    /\ pc[t] = "rm_sensor"
    /\ T_Remove(t, "rm_sensor", PlusMat(optical_path[t]), denied, "rm_dt")
    /\ UNCHANGED <<inv, settings, cwd, locals>>

\* line 65
T_RemoveDt(t, denied) ==
    /\ pc[t] = "rm_dt"
    /\ T_Remove(t, "rm_dt", PlusDtMat(optical_path[t]), denied, "rm_json")
    /\ UNCHANGED <<inv, settings, cwd, locals>>

\* lines 66-67
T_RemoveJson(t, denied) ==
    /\ pc[t] = "rm_json"
    /\ IF RemoveJsonGuard(settings[t])
       THEN T_Remove(t, "rm_json", tmp_json_filename[t], denied, "restore")
       ELSE /\ ~denied
            /\ T_Goto(t, "restore")
            /\ fs' = fs
            /\ h' = Set(h, t, Reached(h[t], "rm_json"))
    /\ UNCHANGED <<inv, settings, cwd, locals>>

\* line 68
T_RestoreCwd(t) ==
    /\ pc[t] = "restore"
    /\ cwd' = cur_dir[t]
    /\ h' = Set(h, t, Reached(h[t], "restore"))
    /\ T_Goto(t, "return")
    /\ UNCHANGED <<inv, settings, fs, locals>>

\* line 70
T_Return(t) ==
    /\ pc[t] = "return"
    /\ pc' = Set(pc, t, "exited")
    /\ outcome' = Set(outcome, t,
                      IF ReturnedName \in LocalNames
                      THEN [kind |-> "returned", error |-> "none", value |-> sensor_data[t]]
                      ELSE [kind |-> "raised", error |-> "NameError", value |-> -1])
    /\ UNCHANGED <<inv, settings, cwd, fs, locals, h>>

ConcNext ==
    \E t \in Threads :
        \/ T_LoadFields(t)
        \/ \E fail \in BOOLEAN : T_SaveMat(t, fail)
        \/ \E fault \in {"none", "open", "dump"} : T_WriteJson(t, fault)
        \/ T_GetCwd(t)
        \/ \E fail \in BOOLEAN : T_Chdir(t, fail)
        \/ \E r \in [status : {"raised", "zero", "nonzero"},
                     writes : SUBSET {"sensor", "dt"}] : T_RunEngine(t, r)
        \/ T_ReadSensor(t)
        \/ T_ReadDt(t)
        \/ \E denied \in BOOLEAN : T_RemoveData(t, denied)
        \/ \E denied \in BOOLEAN : T_RemoveSensor(t, denied)
        \/ \E denied \in BOOLEAN : T_RemoveDt(t, denied)
        \/ \E denied \in BOOLEAN : T_RemoveJson(t, denied)
        \/ T_RestoreCwd(t)
        \/ T_Return(t)

ConcSpec == ConcInit /\ [][ConcNext]_vars

\* the path strings an invocation uses for its temporary files
TempPaths(out) ==
    {PlusMat(out), PlusJson(SplitextRoot(out)), PlusMat(PlusMat(out)), PlusDtMat(PlusMat(out))}

\* the files a thread or its engine run wrote, or the thread removed or
\* tried to remove
TouchedBy(t) == h[t].wrote \cup h[t].engine_wrote \cup h[t].rm_attempted

\* C12: two invocations with distinct output paths use disjoint sets of
\* temporary file paths, and under any interleaving neither writes or deletes
\* a file of the other.
C12_CollisionFreeNaming ==
    \A t1 \in Threads, t2 \in Threads :
        (t1 # t2 /\ Get(settings[t1], "IPPAI_OUTPUT_PATH")
                       # Get(settings[t2], "IPPAI_OUTPUT_PATH")) =>
            /\ TempPaths(Get(settings[t1], "IPPAI_OUTPUT_PATH"))
                  \cap TempPaths(Get(settings[t2], "IPPAI_OUTPUT_PATH")) = {}
            /\ TouchedBy(t1) \cap TouchedBy(t2) = {}

\* between the switch to the simulation directory and the restore
InDirectorySection(t) ==
    pc[t] \in {"chdir56", "run", "read_sensor", "read_dt", "rm_data", "rm_sensor",
               "rm_dt", "rm_json", "restore"}

\* C13: the capture / chdir / run / restore sections of two concurrent
\* invocations never overlap, each engine runs in its invocation's
\* simulation directory, and after both invocations the working directory
\* is the one the process had before either started.
C13_SerializedDirectorySection ==
    /\ \A t1 \in Threads, t2 \in Threads :
          t1 # t2 => ~(InDirectorySection(t1) /\ InDirectorySection(t2))
    /\ \A t \in Threads :
          h[t].engine # "not_run" =>
              h[t].engine_ran_in = Get(settings[t], "SIMULATION_PATH")
    /\ (\A t \in Threads : pc[t] = "exited" /\ "restore" \in h[t].reached) =>
          \A t \in Threads : cwd = h[t].entry_cwd

====
